---- MODULE Spec2Model ----
(***************************************************************************)
(* pkg/plugin/config.go: the scheduler plugin's configuration, its         *)
(* validation (Config.validate, ScoringConfig.validate), its loading       *)
(* (ReadConfig) and the node score the ScoringConfig parameterises.        *)
(*                                                                         *)
(* float64 fields are modelled as exact rationals k/Den, written as the    *)
(* integer numerator k; the float constants 0 and 1 of the code are 0 and  *)
(* Den.  encoding/json cannot decode NaN or an infinity, so every float a  *)
(* Config holds is an ordinary number.                                     *)
(***************************************************************************)
EXTENDS Integers, Sequences, FiniteSets, TLC

VARIABLES
    pc,             \* ReadConfig: the step it is at
    trace,          \* ReadConfig: the steps run so far, in order
    config,         \* ReadConfig: its local `var config Config`
    path,           \* ReadConfig: the path returned by config.validate()
    err,            \* ReadConfig: its local err
    retConfig,      \* ReadConfig: the returned *Config (<<>> is the nil pointer)
    retErr,         \* ReadConfig: the returned error
    usage,          \* Score: the usage fraction x of the last node scored
    scale,          \* Score: the size scale s of the last node scored
    trueScore,      \* Score: the deterministic score of the last node scored
    retScore,       \* Score: the score handed back for the last node scored
    input,          \* direct calls: the Config the validate methods are called on
    scoringResult,  \* direct calls: last (path, err) of input.Scoring.validate()
    configResult    \* direct calls: last (path, err) of input.validate()

vars == <<pc, trace, config, path, err, retConfig, retErr,
          usage, scale, trueScore, retScore, input, scoringResult, configResult>>

readVars  == <<pc, trace, config, path, err, retConfig, retErr>>
scoreVars == <<usage, scale, trueScore, retScore>>
callVars  == <<input, scoringResult, configResult>>

----------------------------------------------------------------------------
(* Bounds of the model *)

\* floats are the rationals k/Den
Den == 2
\* usage fractions are the rationals k/(Den*UsageMul)
UsageMul == 2
\* size scales are the rationals k/ScaleSteps, k in 1..ScaleSteps
ScaleSteps == 2
\* the score range is MinNodeScore .. MinNodeScore + ScoreLen, in whole units
ScoreLen == 6

FloatVals == -1 .. (Den + 1)
IntVals == {0, 1}
StringVals == {"", "autoscale-scheduler"}

----------------------------------------------------------------------------
(* Go values *)

\* the nil error; every other error is its message
nil == "<nil>"

ZeroScoringConfig ==
    [MinUsageScore |-> 0, MaxUsageScore |-> 0, ScorePeak |-> 0, Randomize |-> FALSE]

ScoringConfig ==
    [MinUsageScore : FloatVals, MaxUsageScore : FloatVals, ScorePeak : FloatVals,
     Randomize : BOOLEAN]

Config ==
    [Scoring : ScoringConfig,
     Watermark : FloatVals,
     SchedulerName : StringVals,
     ReconcileWorkers : IntVals,
     LogSuccessiveFailuresThreshold : IntVals,
     StartupEventHandlingTimeoutSeconds : IntVals,
     K8sCRUDTimeoutSeconds : IntVals,
     PatchRetryWaitSeconds : IntVals,
     NodeMetricLabels : {<<>>},
     IgnoredNamespaces : {<<>>}]

ZeroConfig ==
    [Scoring |-> ZeroScoringConfig,
     Watermark |-> 0,
     SchedulerName |-> "",
     ReconcileWorkers |-> 0,
     LogSuccessiveFailuresThreshold |-> 0,
     StartupEventHandlingTimeoutSeconds |-> 0,
     K8sCRUDTimeoutSeconds |-> 0,
     PatchRetryWaitSeconds |-> 0,
     NodeMetricLabels |-> <<>>,
     IgnoredNamespaces |-> <<>>]

\* the json tag of Config.Scoring
ScoringTag == "scoring"

DefaultConfigPath == "/etc/scheduler-plugin-config/autoscale-enforcer-config.json"

----------------------------------------------------------------------------
(* CONFIG VALIDATION *)

\* A validate method has a pointer receiver: its result is the receiver as
\* the call leaves it (c), the returned path and the returned error.
Returns(c, p, e) == [c |-> c, path |-> p, err |-> e]

\* mutants of ScoringConfig.validate
\* the upper bound taken as exclusive
ScoringConfig_validate_exclusive(c) ==
    IF c.MinUsageScore < 0 \/ c.MinUsageScore >= Den
    THEN Returns(c, "minUsageScore", "value must be between 0 and 1, inclusive")
    ELSE IF c.MaxUsageScore < 0 \/ c.MaxUsageScore >= Den
    THEN Returns(c, "maxUsageScore", "value must be between 0 and 1, inclusive")
    ELSE IF c.ScorePeak < 0 \/ c.ScorePeak >= Den
    THEN Returns(c, "scorePeak", "value must be between 0 and 1, inclusive")
    ELSE Returns(c, "", nil)

\* the lower bound of ScorePeak left unchecked
ScoringConfig_validate_noLower(c) ==
    IF c.MinUsageScore < 0 \/ c.MinUsageScore > Den
    THEN Returns(c, "minUsageScore", "value must be between 0 and 1, inclusive")
    ELSE IF c.MaxUsageScore < 0 \/ c.MaxUsageScore > Den
    THEN Returns(c, "maxUsageScore", "value must be between 0 and 1, inclusive")
    ELSE IF c.ScorePeak > Den
    THEN Returns(c, "scorePeak", "value must be between 0 and 1, inclusive")
    ELSE Returns(c, "", nil)

\* MaxUsageScore checked before MinUsageScore
ScoringConfig_validate_reordered(c) ==
    IF c.MaxUsageScore < 0 \/ c.MaxUsageScore > Den
    THEN Returns(c, "maxUsageScore", "value must be between 0 and 1, inclusive")
    ELSE IF c.MinUsageScore < 0 \/ c.MinUsageScore > Den
    THEN Returns(c, "minUsageScore", "value must be between 0 and 1, inclusive")
    ELSE IF c.ScorePeak < 0 \/ c.ScorePeak > Den
    THEN Returns(c, "scorePeak", "value must be between 0 and 1, inclusive")
    ELSE Returns(c, "", nil)

\* the upper bound of MinUsageScore left unchecked
ScoringConfig_validate_minUnbounded(c) ==
    IF c.MinUsageScore < 0
    THEN Returns(c, "minUsageScore", "value must be between 0 and 1, inclusive")
    ELSE IF c.MaxUsageScore < 0 \/ c.MaxUsageScore > Den
    THEN Returns(c, "maxUsageScore", "value must be between 0 and 1, inclusive")
    ELSE IF c.ScorePeak < 0 \/ c.ScorePeak > Den
    THEN Returns(c, "scorePeak", "value must be between 0 and 1, inclusive")
    ELSE Returns(c, "", nil)

ScoringConfig_validate(c) ==
    IF c.MinUsageScore < 0 \/ c.MinUsageScore > Den
    THEN Returns(c, "minUsageScore", "value must be between 0 and 1, inclusive")
    ELSE IF c.MaxUsageScore < 0 \/ c.MaxUsageScore > Den
    THEN Returns(c, "maxUsageScore", "value must be between 0 and 1, inclusive")
    ELSE IF c.ScorePeak < 0 \/ c.ScorePeak > Den
    THEN Returns(c, "scorePeak", "value must be between 0 and 1, inclusive")
    ELSE Returns(c, "", nil)

\* mutants of Config.validate
\* the Watermark upper bound taken as exclusive
Config_validate_exclusive(c) ==
    LET s  == ScoringConfig_validate(c.Scoring)
        c1 == [c EXCEPT !.Scoring = s.c]
    IN  IF s.err # nil
        THEN Returns(c1, "nodeConfig." \o s.path, s.err)
        ELSE IF c1.SchedulerName = ""
        THEN Returns(c1, "schedulerName", "string cannot be empty")
        ELSE IF c1.ReconcileWorkers <= 0
        THEN Returns(c1, "reconcileWorkers", "value must be > 0")
        ELSE IF c1.LogSuccessiveFailuresThreshold <= 0
        THEN Returns(c1, "logSuccessiveFailuresThreshold", "value must be > 0")
        ELSE IF c1.StartupEventHandlingTimeoutSeconds <= 0
        THEN Returns(c1, "startupEventHandlingTimeoutSeconds", "value must be > 0")
        ELSE IF c1.K8sCRUDTimeoutSeconds <= 0
        THEN Returns(c1, "k8sCRUDTimeoutSeconds", "value must be > 0")
        ELSE IF c1.PatchRetryWaitSeconds <= 0
        THEN Returns(c1, "patchRetryWaitSeconds", "value must be > 0")
        ELSE IF c1.Watermark <= 0
        THEN Returns(c1, "watermark", "value must be > 0")
        ELSE IF c1.Watermark >= Den
        THEN Returns(c1, "watermark", "value must be <= 1")
        ELSE Returns(c1, "", nil)

\* an out-of-range Watermark reset to 1 instead of left alone
Config_validate_clamps(c) ==
    LET s  == ScoringConfig_validate(c.Scoring)
        c1 == [c EXCEPT !.Scoring = s.c]
    IN  IF s.err # nil
        THEN Returns(c1, "nodeConfig." \o s.path, s.err)
        ELSE IF c1.SchedulerName = ""
        THEN Returns(c1, "schedulerName", "string cannot be empty")
        ELSE IF c1.ReconcileWorkers <= 0
        THEN Returns(c1, "reconcileWorkers", "value must be > 0")
        ELSE IF c1.LogSuccessiveFailuresThreshold <= 0
        THEN Returns(c1, "logSuccessiveFailuresThreshold", "value must be > 0")
        ELSE IF c1.StartupEventHandlingTimeoutSeconds <= 0
        THEN Returns(c1, "startupEventHandlingTimeoutSeconds", "value must be > 0")
        ELSE IF c1.K8sCRUDTimeoutSeconds <= 0
        THEN Returns(c1, "k8sCRUDTimeoutSeconds", "value must be > 0")
        ELSE IF c1.PatchRetryWaitSeconds <= 0
        THEN Returns(c1, "patchRetryWaitSeconds", "value must be > 0")
        ELSE IF c1.Watermark <= 0
        THEN Returns(c1, "watermark", "value must be > 0")
        ELSE IF c1.Watermark > Den
        THEN Returns([c1 EXCEPT !.Watermark = Den], "watermark", "value must be <= 1")
        ELSE Returns(c1, "", nil)

\* the scoring error returned with the path dropped
Config_validate_noPath(c) ==
    LET s  == ScoringConfig_validate(c.Scoring)
        c1 == [c EXCEPT !.Scoring = s.c]
    IN  IF s.err # nil
        THEN Returns(c1, "", s.err)
        ELSE IF c1.SchedulerName = ""
        THEN Returns(c1, "schedulerName", "string cannot be empty")
        ELSE IF c1.ReconcileWorkers <= 0
        THEN Returns(c1, "reconcileWorkers", "value must be > 0")
        ELSE IF c1.LogSuccessiveFailuresThreshold <= 0
        THEN Returns(c1, "logSuccessiveFailuresThreshold", "value must be > 0")
        ELSE IF c1.StartupEventHandlingTimeoutSeconds <= 0
        THEN Returns(c1, "startupEventHandlingTimeoutSeconds", "value must be > 0")
        ELSE IF c1.K8sCRUDTimeoutSeconds <= 0
        THEN Returns(c1, "k8sCRUDTimeoutSeconds", "value must be > 0")
        ELSE IF c1.PatchRetryWaitSeconds <= 0
        THEN Returns(c1, "patchRetryWaitSeconds", "value must be > 0")
        ELSE IF c1.Watermark <= 0
        THEN Returns(c1, "watermark", "value must be > 0")
        ELSE IF c1.Watermark > Den
        THEN Returns(c1, "watermark", "value must be <= 1")
        ELSE Returns(c1, "", nil)

Config_validate(c) ==
    LET s  == ScoringConfig_validate(c.Scoring)
        c1 == [c EXCEPT !.Scoring = s.c]
    IN  IF s.err # nil
        THEN Returns(c1, "nodeConfig." \o s.path, s.err)
        ELSE IF c1.SchedulerName = ""
        THEN Returns(c1, "schedulerName", "string cannot be empty")
        ELSE IF c1.ReconcileWorkers <= 0
        THEN Returns(c1, "reconcileWorkers", "value must be > 0")
        ELSE IF c1.LogSuccessiveFailuresThreshold <= 0
        THEN Returns(c1, "logSuccessiveFailuresThreshold", "value must be > 0")
        ELSE IF c1.StartupEventHandlingTimeoutSeconds <= 0
        THEN Returns(c1, "startupEventHandlingTimeoutSeconds", "value must be > 0")
        ELSE IF c1.K8sCRUDTimeoutSeconds <= 0
        THEN Returns(c1, "k8sCRUDTimeoutSeconds", "value must be > 0")
        ELSE IF c1.PatchRetryWaitSeconds <= 0
        THEN Returns(c1, "patchRetryWaitSeconds", "value must be > 0")
        ELSE IF c1.Watermark <= 0
        THEN Returns(c1, "watermark", "value must be > 0")
        ELSE IF c1.Watermark > Den
        THEN Returns(c1, "watermark", "value must be <= 1")
        ELSE Returns(c1, "", nil)

----------------------------------------------------------------------------
(* Direct calls of the validate methods on an arbitrary Config *)

Result(r) == <<[path |-> r.path, err |-> r.err]>>

CallScoringValidate ==
    LET r == ScoringConfig_validate(input.Scoring)
    IN  /\ input' = [input EXCEPT !.Scoring = r.c]
        /\ scoringResult' = Result(r)
        /\ UNCHANGED <<configResult, readVars, scoreVars>>

CallConfigValidate ==
    LET r == Config_validate(input)
    IN  /\ input' = r.c
        /\ configResult' = Result(r)
        /\ UNCHANGED <<scoringResult, readVars, scoreVars>>

InitRead ==
    /\ pc = "open"
    /\ trace = <<>>
    /\ config = ZeroConfig
    /\ path = DefaultConfigPath
    /\ err = nil
    /\ retConfig = <<>>
    /\ retErr = nil

InitScore ==
    /\ usage = 0
    /\ scale = 1
    /\ trueScore = 0
    /\ retScore = <<>>

InitValidate ==
    /\ input \in Config
    /\ scoringResult = <<>>
    /\ configResult = <<>>
    /\ InitRead
    /\ InitScore

NextValidate ==
    \/ CallScoringValidate
    \/ CallConfigValidate

SpecValidate == InitValidate /\ [][NextValidate]_vars

----------------------------------------------------------------------------
(* CONFIG READING *)

\* fmt.Errorf("Error opening config file %q: %w", path, err)
OpenError(p, e) == "Error opening config file \"" \o p \o "\": " \o e
\* fmt.Errorf("Error decoding JSON config in %q: %w", path, err)
DecodeError(p, e) == "Error decoding JSON config in \"" \o p \o "\": " \o e
\* fmt.Errorf("Invalid config at %s: %w", path, err)
InvalidError(p, e) == "Invalid config at " \o p \o ": " \o e

\* the errors os.Open can return, nil among them
OpenErrors == {nil, "open " \o DefaultConfigPath \o ": no such file or directory"}
\* the errors Decode can return, nil among them; unknown fields are disallowed
DecodeErrors == {nil, "unexpected EOF", "json: unknown field \"extra\""}

\* file, err := os.Open(path); if err != nil { return nil, ... }
Open ==
    /\ pc = "open"
    /\ trace' = Append(trace, "open")
    /\ \E e \in OpenErrors :
          /\ err' = e
          /\ IF e # nil
             THEN /\ retConfig' = <<>>
                  /\ retErr' = OpenError(path, e)
                  /\ pc' = "done"
             ELSE /\ pc' = "decode"
                  /\ UNCHANGED <<retConfig, retErr>>
    /\ UNCHANGED <<config, path, scoreVars, callVars>>

\* var config Config; if err = jsonDecoder.Decode(&config); err != nil { return nil, ... }
\* (what a failed Decode leaves in the local config is never read again)
Decode ==
    /\ pc = "decode"
    /\ trace' = Append(trace, "decode")
    /\ \E e \in DecodeErrors :
          /\ err' = e
          /\ IF e # nil
             THEN /\ retConfig' = <<>>
                  /\ retErr' = DecodeError(path, e)
                  /\ pc' = "done"
                  /\ UNCHANGED config
             ELSE /\ config' \in Config
                  /\ pc' = "validate"
                  /\ UNCHANGED <<retConfig, retErr>>
    /\ UNCHANGED <<path, scoreVars, callVars>>

\* mutant of ReadConfig: the config handed out together with the error
Validate_returnsInvalid ==
    /\ pc = "validate"
    /\ trace' = Append(trace, "validate")
    /\ LET r == Config_validate(config)
       IN  /\ config' = r.c
           /\ path' = r.path
           /\ err' = r.err
           /\ retConfig' = <<r.c>>
           /\ retErr' = IF r.err # nil THEN InvalidError(r.path, r.err) ELSE nil
    /\ pc' = "done"
    /\ UNCHANGED <<scoreVars, callVars>>

\* if path, err = config.validate(); err != nil { return nil, ... }; return &config, nil
Validate ==
    /\ pc = "validate"
    /\ trace' = Append(trace, "validate")
    /\ LET r == Config_validate(config)
       IN  /\ config' = r.c
           /\ path' = r.path
           /\ err' = r.err
           /\ IF r.err # nil
              THEN /\ retConfig' = <<>>
                   /\ retErr' = InvalidError(r.path, r.err)
              ELSE /\ retConfig' = <<r.c>>
                   /\ retErr' = nil
    /\ pc' = "done"
    /\ UNCHANGED <<scoreVars, callVars>>

----------------------------------------------------------------------------
(* NODE SCORING: the curve the ScoringConfig fields describe *)

\* a usage fraction is k/UsageDen
UsageDen == Den * UsageMul
Usages == 0 .. UsageDen
Scales == 1 .. ScaleSteps

\* rationals <<numerator, denominator>>, denominator > 0
LeqQ(a, b) == a[1] * b[2] <= b[1] * a[2]
EqQ(a, b) == a[1] * b[2] = b[1] * a[2]

\* the lowest score a node can get
MinNodeScore == 0

\* The score, relative to the score at the peak, of a node that is x/UsageDen
\* full: 1 at ScorePeak, sloping down linearly on either side towards
\* MinUsageScore at 0 and MaxUsageScore at 1.
Curve(c, x) ==
    LET p == c.ScorePeak * UsageMul
    IN  IF x = p THEN <<1, 1>>
        ELSE IF x < p
        THEN <<c.MinUsageScore * p + (Den - c.MinUsageScore) * x, Den * p>>
        ELSE <<c.MaxUsageScore * (UsageDen - p) + (Den - c.MaxUsageScore) * (UsageDen - x),
               Den * (UsageDen - p)>>

\* the score attainable at the peak by a node of size scale s/ScaleSteps
PeakScore(s) == <<s, ScaleSteps>>

\* f(x,s): the curve scaled linearly by the node's size scale
ScoreFunction(c, x, s) ==
    <<Curve(c, x)[1] * PeakScore(s)[1], Curve(c, x)[2] * PeakScore(s)[2]>>

\* the deterministic score in whole units of the output range
TrueScore(c, x, s) ==
    MinNodeScore + ((ScoreLen * ScoreFunction(c, x, s)[1]) \div ScoreFunction(c, x, s)[2])

\* mutant of the randomized score: the draw taken from [MinNodeScore, trueScore + 1]
ReturnedScores_offByOne(c, t) ==
    IF c.Randomize
    THEN MinNodeScore .. (t + 1)
    ELSE {t}

\* the scores a call may hand back: trueScore, or with Randomize a draw from
\* [MinNodeScore + 1, trueScore]; a trueScore at the floor leaves only itself
ReturnedScores(c, t) ==
    IF c.Randomize /\ t >= MinNodeScore + 1
    THEN (MinNodeScore + 1) .. t
    ELSE {t}

\* one candidate node scored with the config ReadConfig returned
Score ==
    /\ pc = "done"
    /\ retConfig # <<>>
    /\ \E x \in Usages, s \in Scales :
          /\ usage' = x
          /\ scale' = s
          /\ trueScore' = TrueScore(retConfig[1].Scoring, x, s)
          /\ retScore' \in {<<r>> : r \in ReturnedScores(retConfig[1].Scoring, trueScore')}
    /\ UNCHANGED <<readVars, callVars>>

Init ==
    /\ InitRead
    /\ InitScore
    /\ input = ZeroConfig
    /\ scoringResult = <<>>
    /\ configResult = <<>>

Next ==
    \/ Open
    \/ Decode
    \/ Validate
    \/ Score

Spec == Init /\ [][Next]_vars

----------------------------------------------------------------------------
(* Properties of ScoringConfig.validate, checked under SpecValidate *)

InRange(v) == v >= 0 /\ v <= Den
RangeMessage == "value must be between 0 and 1, inclusive"

\* the ScoringConfig fields in the order validate checks them: value and JSON name
ScoringFields(c) ==
    << <<c.MinUsageScore, "minUsageScore">>,
       <<c.MaxUsageScore, "maxUsageScore">>,
       <<c.ScorePeak, "scorePeak">> >>

\* C1: every ScoringConfig whose MinUsageScore, MaxUsageScore and ScorePeak all
\* lie in [0,1] (endpoints included, any Randomize, no order between Min and
\* Max) validates to the empty path and a nil error.
C1_ValidInRange ==
    (/\ scoringResult # <<>>
     /\ InRange(input.Scoring.MinUsageScore)
     /\ InRange(input.Scoring.MaxUsageScore)
     /\ InRange(input.Scoring.ScorePeak))
    => scoringResult[1] = [path |-> "", err |-> nil]

\* validate has accepted a config at the endpoints, with MinUsageScore above
\* MaxUsageScore and Randomize set
C1_Witness ==
    /\ scoringResult # <<>>
    /\ scoringResult[1].err = nil
    /\ input.Scoring.MinUsageScore = Den
    /\ input.Scoring.MaxUsageScore = 0
    /\ input.Scoring.ScorePeak = Den
    /\ input.Scoring.Randomize

\* C2 (as stated): whenever a field of {MinUsageScore, MaxUsageScore, ScorePeak}
\* is < 0 or > 1, validate returns the range error with that field's JSON name
\* as the path.
C2_NamesEveryBadField ==
    scoringResult # <<>> =>
        \A i \in 1..3 :
            ~InRange(ScoringFields(input.Scoring)[i][1]) =>
                scoringResult[1] =
                    [path |-> ScoringFields(input.Scoring)[i][2], err |-> RangeMessage]

\* C2 (amended): whenever a field is < 0 or > 1, validate returns the range
\* error, its path is the JSON name of a field that is out of range, and it is
\* that field's name when no field checked before it is out of range too.
C2_NamesABadField ==
    scoringResult # <<>> =>
        \A i \in 1..3 :
            ~InRange(ScoringFields(input.Scoring)[i][1]) =>
                /\ scoringResult[1].err = RangeMessage
                /\ \E j \in 1..3 :
                      /\ ~InRange(ScoringFields(input.Scoring)[j][1])
                      /\ scoringResult[1].path = ScoringFields(input.Scoring)[j][2]
                /\ (\A k \in 1..(i-1) : InRange(ScoringFields(input.Scoring)[k][1]))
                      => scoringResult[1].path = ScoringFields(input.Scoring)[i][2]

\* validate has rejected a config whose only bad field is a negative ScorePeak
C2_Witness ==
    /\ scoringResult # <<>>
    /\ input.Scoring.ScorePeak < 0
    /\ InRange(input.Scoring.MinUsageScore)
    /\ InRange(input.Scoring.MaxUsageScore)
    /\ scoringResult[1].path = "scorePeak"

\* C3: the fields are checked in the order MinUsageScore, MaxUsageScore,
\* ScorePeak and only the first violation is reported: a returned path names a
\* field that is out of range while every field before it is in range.
C3_FirstViolationOnly ==
    scoringResult # <<>> =>
        /\ (scoringResult[1].path = "minUsageScore")
             <=> ~InRange(input.Scoring.MinUsageScore)
        /\ (scoringResult[1].path = "maxUsageScore")
             <=> (InRange(input.Scoring.MinUsageScore) /\ ~InRange(input.Scoring.MaxUsageScore))
        /\ (scoringResult[1].path = "scorePeak")
             <=> (/\ InRange(input.Scoring.MinUsageScore)
                  /\ InRange(input.Scoring.MaxUsageScore)
                  /\ ~InRange(input.Scoring.ScorePeak))

\* validate has reported minUsageScore for a config whose three fields are all
\* out of range
C3_Witness ==
    /\ scoringResult # <<>>
    /\ input.Scoring.MinUsageScore > Den
    /\ input.Scoring.MaxUsageScore < 0
    /\ input.Scoring.ScorePeak > Den
    /\ scoringResult[1].path = "minUsageScore"

----------------------------------------------------------------------------
(* Properties of Config.validate, checked under SpecValidate *)

\* C7: validation is pure: a call of ScoringConfig.validate or Config.validate
\* leaves every field of the config it is called on unchanged, whatever the
\* outcome, and a later call on the same config returns the same (path, error).
C7_ValidatePure ==
    [][/\ input' = input
       /\ scoringResult # <<>> => scoringResult' = scoringResult
       /\ configResult # <<>> => configResult' = configResult]_vars

\* both methods have been called on a config that Config.validate rejects
\* because of its Scoring
C7_Witness ==
    /\ scoringResult # <<>>
    /\ configResult # <<>>
    /\ scoringResult[1].err # nil
    /\ configResult[1].err # nil

\* the JSON keys of the top-level fields Config.validate checks
TopLevelKeys ==
    {"watermark", "schedulerName", "reconcileWorkers", "logSuccessiveFailuresThreshold",
     "startupEventHandlingTimeoutSeconds", "k8sCRUDTimeoutSeconds", "patchRetryWaitSeconds"}

\* C8: when Config.validate returns an error the path is a JSON path to the
\* invalid value: a top-level field's JSON key, or for a violation inside
\* Scoring the json tag of Config.Scoring, ".", and the offending field's key.
C8_PathIsJSONPath ==
    (configResult # <<>> /\ configResult[1].err # nil) =>
        IF ScoringConfig_validate(input.Scoring).err # nil
        THEN configResult[1].path =
                 ScoringTag \o "." \o ScoringConfig_validate(input.Scoring).path
        ELSE configResult[1].path \in TopLevelKeys

\* the checks of Config.validate in order: whether the check fails, and the
\* path and message of its error
ConfigChecks(c) ==
    << <<ScoringConfig_validate(c.Scoring).err # nil,
         ScoringConfig_validate(c.Scoring).path,
         ScoringConfig_validate(c.Scoring).err>>,
       <<c.SchedulerName = "", "schedulerName", "string cannot be empty">>,
       <<~(c.ReconcileWorkers > 0), "reconcileWorkers", "value must be > 0">>,
       <<~(c.LogSuccessiveFailuresThreshold > 0),
         "logSuccessiveFailuresThreshold", "value must be > 0">>,
       <<~(c.StartupEventHandlingTimeoutSeconds > 0),
         "startupEventHandlingTimeoutSeconds", "value must be > 0">>,
       <<~(c.K8sCRUDTimeoutSeconds > 0), "k8sCRUDTimeoutSeconds", "value must be > 0">>,
       <<~(c.PatchRetryWaitSeconds > 0), "patchRetryWaitSeconds", "value must be > 0">>,
       <<~(c.Watermark > 0 /\ c.Watermark <= Den), "watermark",
         IF c.Watermark > Den THEN "value must be <= 1" ELSE "value must be > 0">> >>

\* C9: Config.validate returns no error iff Scoring validates, SchedulerName is
\* non-empty, the five integer fields are > 0 and Watermark is in (0,1];
\* otherwise it reports the first failing check in the order Scoring,
\* schedulerName, reconcileWorkers, logSuccessiveFailuresThreshold,
\* startupEventHandlingTimeoutSeconds, k8sCRUDTimeoutSeconds,
\* patchRetryWaitSeconds, watermark, with "value must be > 0" for a
\* Watermark <= 0 and "value must be <= 1" for a Watermark > 1.
C9_FirstFailingCheck ==
    configResult # <<>> =>
        LET checks == ConfigChecks(input)
            failing == {i \in 1..8 : checks[i][1]}
        IN  /\ (configResult[1].err = nil) <=> (failing = {})
            /\ \A i \in failing :
                  (\A j \in failing : i <= j) =>
                      /\ configResult[1].err = checks[i][3]
                      /\ i > 1 => configResult[1].path = checks[i][2]

\* Config.validate has reported the Scoring violation of a config whose every
\* other field is invalid too
C9_Witness ==
    /\ configResult # <<>>
    /\ \A i \in 1..8 : ConfigChecks(input)[i][1]
    /\ input.Watermark > Den
    /\ configResult[1].err = RangeMessage

\* C10: for ScoringConfig.validate and for Config.validate the returned path is
\* empty iff the returned error is nil.
C10_EmptyPathIffNil ==
    /\ scoringResult # <<>> => ((scoringResult[1].path = "") <=> (scoringResult[1].err = nil))
    /\ configResult # <<>> => ((configResult[1].path = "") <=> (configResult[1].err = nil))

\* both methods have returned on a config with valid Scoring and a Watermark
\* above 1: one success with an empty path, one failure with a path
C10_Witness ==
    /\ scoringResult # <<>>
    /\ configResult # <<>>
    /\ scoringResult[1] = [path |-> "", err |-> nil]
    /\ configResult[1] = [path |-> "watermark", err |-> "value must be <= 1"]

----------------------------------------------------------------------------
(* Properties of ReadConfig and of the score, checked under Spec *)

ReadSteps == <<"open", "decode", "validate">>

\* C4: ReadConfig runs open, decode, validate in that order and stops at the
\* first step that fails, returning a nil config and a non-nil error; validate
\* runs at most once, only after a successful decode, and once whenever the
\* decode succeeded; a non-nil config is returned, with a nil error, only when
\* Config.validate and so ScoringConfig.validate returned no error on it; in
\* every outcome exactly one of (config, error) is non-nil.
C4_ReadConfigFailFast ==
    /\ Len(trace) <= 3
    /\ \A i \in 1..Len(trace) : trace[i] = ReadSteps[i]
    /\ pc # "done" => (err = nil /\ retConfig = <<>> /\ retErr = nil)
    /\ pc = "validate" => trace = <<"open", "decode">>
    /\ pc = "done" =>
          /\ (retConfig = <<>>) <=> (retErr # nil)
          /\ (retErr # nil) <=> (err # nil)
          /\ Len(trace) < 3 => retErr # nil
          /\ retConfig # <<>> =>
                /\ trace = ReadSteps
                /\ retConfig[1] = config
                /\ Config_validate(retConfig[1]).err = nil
                /\ ScoringConfig_validate(retConfig[1].Scoring).err = nil

\* ReadConfig has decoded a config, validated it once, found its Scoring
\* invalid and returned nil with the error
C4_Witness ==
    /\ pc = "done"
    /\ trace = ReadSteps
    /\ retConfig = <<>>
    /\ retErr = "Invalid config at nodeConfig.scorePeak: value must be between 0 and 1, inclusive"

\* the position of ScorePeak on the usage grid
Peak(c) == c.ScorePeak * UsageMul

\* the score is highest at ScorePeak, rises up to it and falls after it
SinglePeaked(c, s) ==
    /\ \A x \in Usages : LeqQ(ScoreFunction(c, x, s), ScoreFunction(c, Peak(c), s))
    /\ \A x1, x2 \in Usages :
          /\ (x1 < x2 /\ x2 <= Peak(c))
                => LeqQ(ScoreFunction(c, x1, s), ScoreFunction(c, x2, s))
          /\ (Peak(c) <= x1 /\ x1 < x2)
                => LeqQ(ScoreFunction(c, x2, s), ScoreFunction(c, x1, s))

\* MinUsageScore, resp. MaxUsageScore, times the peak score for s
MinTimesPeak(c, s) == <<c.MinUsageScore * PeakScore(s)[1], Den * PeakScore(s)[2]>>
MaxTimesPeak(c, s) == <<c.MaxUsageScore * PeakScore(s)[1], Den * PeakScore(s)[2]>>

====
